---- MODULE Spec2Model ----
(***************************************************************************)
(* Model of the bwilcd XML parsing layer (bwilcd/xml_parser.py), the text  *)
(* formatter (bwilcd/formatter.py) and the transport client               *)
(* (bwilcd/client.py) with the listing of bwilcd/ui/display.py, and the    *)
(* interactive session (bwilcd/ui/session.py).                             *)
(*                                                                         *)
(* Four specifications: Spec applies one parse function to one payload,    *)
(* SpecClient runs a SodaClient against a server, SpecThreads runs         *)
(* parse_datasets_search in several threads at once, SpecSession runs the  *)
(* commands of a Session against a server.                                 *)
(*                                                                         *)
(* An XML document is modelled by what xml.etree.ElementTree lets the code *)
(* see of it: the elements findall() returns in document order, and for    *)
(* each looked-up child either "no such element" (find() returns None),    *)
(* "element without text" (.text is None) or its text.                     *)
(***************************************************************************)
EXTENDS Integers, Sequences, FiniteSets, TLC

VARIABLES xml_content, called, outcome, text

\* the transport client and what the display last showed of it
VARIABLES client, lru_cache, server_status, shown, calls

clientVars == <<client, lru_cache, server_status, shown, calls>>

\* ElementTree's module-level namespace registry and the threads that are
\* inside parse_datasets_search
VARIABLES registry, threads

threadVars == <<registry, threads>>

\* the calls the progress callback of download_stock has received
VARIABLES progress

downloadVars == <<progress>>

\* the interactive session and the stock list the server serves
VARIABLES session, server_stocks

sessionVars == <<session, server_stocks>>

vars == <<xml_content, called, outcome, text, clientVars, threadVars,
          downloadVars, sessionVars>>

(***************************************************************************)
(* Bounds of the model.                                                    *)
(***************************************************************************)
MaxStocks == 2
MaxProcesses == 2
MaxExchanges == 2
MaxFlows == 1
MaxCategories == 2
MaxEnrichExchanges == 3
MaxMetadata == 2
MaxCalls == 3
MaxPage == 1
PageSize == 1
MaxThreads == 2
MaxChunks == 2
MaxCommands == 4

(***************************************************************************)
(* Python values.                                                          *)
(***************************************************************************)
\* Python's None: find() found no element, .text of an empty element,
\* .get() of a missing attribute or dict key.
None == "None"

\* what find() returns for an element that exists but has no text
\* (<uuid/>): the element is not None, its .text is None.
NoText == "<no text>"

\* bool(v) of an optional string
Truthy(v) == v # None /\ v # ""

\* elem.text of what find() returned (only called when elem is not None)
TextOf(elem) == IF elem = NoText THEN None ELSE elem

\* all sequences over S of length at most n
SeqUpTo(S, n) == UNION {[1..k -> S] : k \in 0..n}

\* d.get(key) of a dict
DictGet(d, key) == IF key \in DOMAIN d THEN d[key] ELSE None

EmptyDict == [k \in {} |-> None]

\* outcomes of a call
Return(v) == [kind |-> "return", value |-> v, exc |-> None]
Raise(e) == [kind |-> "raise", value |-> None, exc |-> e]
NotCalled == [kind |-> "none", value |-> None, exc |-> None]

(***************************************************************************)
(* ET.fromstring: a payload that is not well-formed raises ParseError,     *)
(* a well-formed one yields its root element.                              *)
(***************************************************************************)
Malformed == [kind |-> "malformed"]

\* the HTTP status codes a response can carry
StatusCodes == {200, 500}

\* the "status" of a request that got no response: session.get raised a
\* RequestException
NoResponse == 0 - 1

\* what a request can meet
ServerAnswers == StatusCodes \cup {NoResponse}

WellFormed(content) == content.kind # "malformed"

(***************************************************************************)
(* Stock listing documents.                                                *)
(***************************************************************************)
\* the namespace bindings of parse_stocks, in the order of the list
SAPI == "http://www.ilcd-network.org/ILCD/ServiceAPI"
SAPI_SLASH == "http://www.ilcd-network.org/ILCD/ServiceAPI/"
NoNamespace == ""

\* a list without the binding for documents without namespace
namespaces_NoFallback == <<SAPI, SAPI_SLASH>>

namespaces == <<SAPI, SAPI_SLASH, NoNamespace>>

\* what find() can return for a child: no element, an element without
\* text, an element with text
Found == {None, NoText, "text"}

\* the stock at position k of a document carries the uuid StockDocUuid[k]
StockDocUuid == <<"s-1", "s-2", "s-3", "s-4">>

\* A dataStock element: its namespace (inherited by its children) and what
\* find() returns for its uuid, shortName and description child.
StockShapes ==
    [ns : {SAPI, SAPI_SLASH, NoNamespace},
     uuid : Found, shortName : Found, description : Found]

StockAt(shape, k) ==
    [ns |-> shape.ns,
     uuid |-> IF shape.uuid = "text" THEN StockDocUuid[k] ELSE shape.uuid,
     shortName |-> IF shape.shortName = "text" THEN "Test Stock"
                   ELSE shape.shortName,
     description |-> IF shape.description = "text" THEN "Stock Description"
                     ELSE shape.description]


\* root.findall(".//ns:dataStock", ns) / root.findall(".//dataStock")
FindAllDataStock(root, ns) ==
    IF root.kind = "stocks"
    THEN SelectSeq(root.dataStock, LAMBDA e : e.ns = ns)
    ELSE <<>>

\* the dict _try_parse_stocks builds for one dataStock element
StockData(stock) ==
    LET d1 == IF stock.uuid # None
              THEN ("uuid" :> TextOf(stock.uuid)) ELSE EmptyDict
        d2 == IF stock.shortName # None
              THEN d1 @@ ("name" :> TextOf(stock.shortName)) ELSE d1
        d3 == IF stock.description # None
              THEN d2 @@ ("description" :>
                          (IF TextOf(stock.description) = None THEN ""
                           ELSE TextOf(stock.description)))
              ELSE d2
    IN d3

\* a filter that looks at the identifier only
StockAccepted_UuidOnly(stock_data) == Truthy(DictGet(stock_data, "uuid"))

\* the loop body's filter: both uuid and name are present and non-empty
StockAccepted(stock_data) ==
    Truthy(DictGet(stock_data, "uuid")) /\ Truthy(DictGet(stock_data, "name"))

RECURSIVE CollectStocks(_, _)
CollectStocks(elements, stocks) ==
    IF elements = <<>> THEN stocks
    ELSE LET stock_data == StockData(Head(elements))
         IN CollectStocks(Tail(elements),
                IF StockAccepted(stock_data)
                THEN Append(stocks, stock_data) ELSE stocks)

_try_parse_stocks(root, ns) == CollectStocks(FindAllDataStock(root, ns), <<>>)

\* a loop that extends one list with the stocks of every binding
StocksFrom_Merged(root, i) ==
    LET part(j) == IF j >= i /\ j <= Len(namespaces)
                   THEN _try_parse_stocks(root, namespaces[j]) ELSE <<>>
    IN part(1) \o part(2) \o part(3)

\* the for loop of parse_stocks from binding i on
RECURSIVE StocksFrom(_, _)
StocksFrom(root, i) ==
    IF i > Len(namespaces) THEN <<>>
    ELSE LET stocks == _try_parse_stocks(root, namespaces[i])
         IN IF stocks # <<>> THEN stocks ELSE StocksFrom(root, i + 1)

parse_stocks(content) ==
    IF ~WellFormed(content) THEN Raise("ParseError")
    ELSE Return(StocksFrom(content, 1))

(***************************************************************************)
(* Dataset search documents.                                               *)
(***************************************************************************)
PROCESS_NS == "http://www.ilcd-network.org/ILCD/ServiceAPI/Process"

\* the top-level element paths of parse_datasets_search, in list order
paths == <<[ns |-> SAPI, tag |-> "processDataSet"],
           [ns |-> PROCESS_NS, tag |-> "process"],
           [ns |-> NoNamespace, tag |-> "processDataSet"],
           [ns |-> NoNamespace, tag |-> "process"]>>

\* the descendant paths _parse_process_element tries for the identifier
uuid_paths == <<[ns |-> SAPI, tag |-> "uuid"],
                [ns |-> PROCESS_NS, tag |-> "uuid"],
                [ns |-> NoNamespace, tag |-> "uuid"]>>

\* ... and for the name
name_paths == <<[ns |-> SAPI, tag |-> "baseName"],
                [ns |-> SAPI, tag |-> "name"],
                [ns |-> PROCESS_NS, tag |-> "name"],
                [ns |-> NoNamespace, tag |-> "baseName"],
                [ns |-> NoNamespace, tag |-> "name"]>>

\* texts that tell which path an element was found under
UuidPathText == <<"uuid-sapi", "uuid-p", "uuid-bare">>
NamePathText == <<"baseName-sapi", "name-sapi", "name-p", "baseName-bare",
                  "name-bare">>

\* texts that tell the position of a process element in its document
UuidDocText == <<"uuid-1", "uuid-2", "uuid-3", "uuid-4">>
NameDocText == <<"Process 1", "Process 2", "Process 3", "Process 4">>

\* A process element: path is the index in paths of its qualified tag,
\* uuid[i] is what process.find(uuid_paths[i]) returns and name[j] what
\* process.find(name_paths[j]) returns.
\* Every mix of namespaces among the descendants of one element:
MixedProcessElements ==
    {[path |-> p, uuid |-> u, name |-> n] :
        p \in DOMAIN paths,
        u \in [DOMAIN uuid_paths -> Found],
        n \in [DOMAIN name_paths -> Found]}

PathTexts(found, texts) ==
    [i \in DOMAIN found |-> IF found[i] = "text" THEN texts[i] ELSE found[i]]

ProcessInputs ==
    {[kind |-> "process",
      process |-> [path |-> e.path,
                   uuid |-> PathTexts(e.uuid, UuidPathText),
                   name |-> PathTexts(e.name, NamePathText)]] :
        e \in MixedProcessElements}

\* An element whose descendants inherit its namespace (the xmlns default):
\* the uuid and name children are found under the path of that namespace.
UuidPathOf(p) == CHOOSE i \in DOMAIN uuid_paths : uuid_paths[i].ns = paths[p].ns
NamePathOf(p) == CHOOSE j \in DOMAIN name_paths :
                    /\ name_paths[j].ns = paths[p].ns
                    /\ \A k \in DOMAIN name_paths :
                          name_paths[k].ns = paths[p].ns => j <= k

ProcessShapes ==
    [path : DOMAIN paths, uuid : Found,
     name : Found]

ProcessAt(shape, k) ==
    [path |-> shape.path,
     uuid |-> [i \in DOMAIN uuid_paths |->
                 IF i # UuidPathOf(shape.path) THEN None
                 ELSE IF shape.uuid = "text" THEN UuidDocText[k]
                 ELSE shape.uuid],
     name |-> [j \in DOMAIN name_paths |->
                 IF j # NamePathOf(shape.path) THEN None
                 ELSE IF shape.name = "text" THEN NameDocText[k]
                 ELSE shape.name]]


\* root.findall(paths[p])
FindAllProcesses(root, p) ==
    IF root.kind = "search"
    THEN SelectSeq(root.processes, LAMBDA e : e.path = p)
    ELSE <<>>

\* a loop that takes the first element that exists, with or without text
FirstText_NoSkip(found, i) ==
    LET present == {j \in i..Len(found) : found[j] # None}
    IN IF present = {} THEN None
       ELSE TextOf(found[CHOOSE j \in present : \A k \in present : j <= k])

\* one for loop of _parse_process_element: the text of the first path, from
\* index i on, whose element exists and has text; None when the loop ends
\* without a break
RECURSIVE FirstText(_, _)
FirstText(found, i) ==
    IF i > Len(found) THEN None
    ELSE IF found[i] # None /\ Truthy(TextOf(found[i])) THEN TextOf(found[i])
    ELSE FirstText(found, i + 1)

_parse_process_element(process) ==
    LET uuid == FirstText(process.uuid, 1)
        name == FirstText(process.name, 1)
        d0 == ("dataset_type" :> "Process")
        d1 == IF uuid # None THEN d0 @@ ("uuid" :> uuid) ELSE d0
        d2 == IF name # None THEN d1 @@ ("name" :> name) ELSE d1
    IN d2

DatasetAccepted(dataset) ==
    Truthy(DictGet(dataset, "uuid")) /\ Truthy(DictGet(dataset, "name"))

RECURSIVE CollectDatasets(_, _)
CollectDatasets(processes, datasets) ==
    IF processes = <<>> THEN datasets
    ELSE LET dataset == _parse_process_element(Head(processes))
         IN CollectDatasets(Tail(processes),
                IF DatasetAccepted(dataset)
                THEN Append(datasets, dataset) ELSE datasets)

\* the loop over paths of parse_datasets_search from path p on: every path
\* appends to the same list and the loop runs to its end
RECURSIVE DatasetsFrom(_, _, _)
DatasetsFrom(root, p, datasets) ==
    IF p > Len(paths) THEN datasets
    ELSE DatasetsFrom(root, p + 1,
            CollectDatasets(FindAllProcesses(root, p), datasets))

parse_datasets_search(content) ==
    IF ~WellFormed(content) THEN Raise("ParseError")
    ELSE Return(DatasetsFrom(content, 1, <<>>))

\* the loop over paths of SodaClient.search_datasets from path p on: it
\* returns as soon as the list is not empty after a path
RECURSIVE ClientDatasetsFrom(_, _, _)
ClientDatasetsFrom(root, p, datasets) ==
    IF p > Len(paths) THEN <<>>
    ELSE LET found == CollectDatasets(FindAllProcesses(root, p), datasets)
         IN IF FindAllProcesses(root, p) # <<>> /\ found # <<>> THEN found
            ELSE ClientDatasetsFrom(root, p + 1, found)

\* SodaClient.search_datasets without its cache: the answer to one request
search_datasets(status_code, content) ==
    IF status_code = NoResponse THEN Return(<<>>)
    ELSE IF status_code # 200 THEN Return(<<>>)
    ELSE IF ~WellFormed(content) THEN Return(<<>>)
    ELSE Return(ClientDatasetsFrom(content, 1, <<>>))

(***************************************************************************)
(* Process dataset documents.                                              *)
(***************************************************************************)
\* the numerals that occur as dataSetInternalID and as reference pointer
Numerals == <<"0", "1", "2">>

\* int(s): TypeError for None, ValueError for a text that is no numeral
IsNumeral(s) == \E i \in DOMAIN Numerals : Numerals[i] = s
IntValue(s) == (CHOOSE i \in DOMAIN Numerals : Numerals[i] = s) - 1
int(s) ==
    IF s = None THEN Raise("TypeError")
    ELSE IF ~IsNumeral(s) THEN Raise("ValueError")
    ELSE Return(IntValue(s))

\* the amounts of the documents, as text and as number; the exchange at
\* position k of a document carries AmountDocText[k]
AmountDocText == <<"2", "-3", "1", "3">>
AmountValue == ("2" :> 2) @@ ("-3" :> 0 - 3) @@ ("1" :> 1) @@ ("3" :> 3)

\* float(s)
float(s) ==
    IF s = None THEN Raise("TypeError")
    ELSE IF s \notin DOMAIN AmountValue THEN Raise("ValueError")
    ELSE Return(AmountValue[s])

\* f"{amount:g}"
FormatG(amount) == CHOOSE s \in DOMAIN AmountValue : AmountValue[s] = amount

abs(n) == IF n < 0 THEN 0 - n ELSE n

FlowDocText == <<"Flow 1", "Flow 2", "Flow 3", "Flow 4">>
FlowDocUuid == <<"flow-1", "flow-2", "flow-3", "flow-4">>

\* An exchange element: the dataSetInternalID attribute (None when the
\* attribute is missing), and what find() returns for the flow short
\* description, exchangeDirection and meanAmount; refObjectId is the
\* attribute of referenceToFlowDataSet (None without that element).
ExchangeShapes ==
    [dataSetInternalID : {None} \cup {Numerals[i] : i \in DOMAIN Numerals},
     flow : {None, "text"},
     direction : {None, "Input", "Output"},
     amount : Found]

ExchangeAt(shape, k) ==
    [dataSetInternalID |-> shape.dataSetInternalID,
     refObjectId |-> IF shape.flow = None THEN None ELSE FlowDocUuid[k],
     flow |-> IF shape.flow = "text" THEN FlowDocText[k] ELSE shape.flow,
     direction |-> shape.direction,
     amount |-> IF shape.amount = "text" THEN AmountDocText[k]
                ELSE shape.amount]

\* what find() returns for referenceToReferenceFlow
ReferencePointers == {None, NoText} \cup {Numerals[i] : i \in DOMAIN Numerals}

LongText == "<text of more than 500 characters>"

\* text[:500] + "..." if len(text) > 500 else text
Truncate(txt) ==
    IF txt = LongText THEN "<first 500 characters>..." ELSE txt

\* str.strip()
strip(txt) ==
    IF txt = "  " THEN ""
    ELSE IF txt = " Prozess " THEN "Prozess"
    ELSE txt

\* A language-tagged field: the first element tagged xml:lang="de" and the
\* first one tagged xml:lang="en", each as find() would return it.
LangField(deTexts, enText) == [de : {None, NoText} \cup deTexts, en : {None, enText}]

\* the header of a document whose fields are all present in German
GermanHeader ==
    [baseName |-> [de |-> "Prozess", en |-> None],
     UUID |-> "p-1",
     generalComment |-> [de |-> "Beschreibung", en |-> None],
     referenceYear |-> "2020",
     geography |-> "DE",
     technology |-> [de |-> "Technik", en |-> None],
     functionalUnit |-> [de |-> "1 kg", en |-> None]]

\* geography: None without the element, NoText for an element without the
\* location attribute (its .get returns None)
Headers ==
    [baseName : LangField({"Prozess", " Prozess ", "  "}, "Process"),
     UUID : {None, "p-1"},
     generalComment : LangField({"Beschreibung", LongText}, "Comment"),
     referenceYear : {"2020"},
     geography : {None, NoText, "DE"},
     technology : LangField({"Technik"}, "Technology"),
     functionalUnit : LangField({"1 kg"}, "1 kg en")]

DatasetDocument(header, pointer, exchanges) ==
    [kind |-> "dataset", header |-> header,
     referenceToReferenceFlow |-> pointer, exchange |-> exchanges]



\* a lookup that falls back to the English element
_get_text_de_AnyLanguage(field) ==
    IF field.de # None /\ Truthy(TextOf(field.de))
    THEN strip(TextOf(field.de))
    ELSE IF field.en # None THEN strip(TextOf(field.en)) ELSE None

\* _get_text with a path that selects on xml:lang="de"
_get_text_de(field) ==
    IF field.de # None /\ Truthy(TextOf(field.de))
    THEN strip(TextOf(field.de)) ELSE None

\* _get_text with a path without language predicate
_get_text(elem) ==
    IF elem # None /\ Truthy(TextOf(elem)) THEN strip(TextOf(elem)) ELSE None

\* _get_geography
_get_geography(geo_elem) ==
    IF geo_elem # None THEN TextOf(geo_elem) ELSE None

\* models.Exchange
Exchange(flow_name, direction, amount, uuid, type, category, unit, is_ref) ==
    [flow_name |-> flow_name, direction |-> direction, amount |-> amount,
     uuid |-> uuid, type |-> type, category |-> category, unit |-> unit,
     is_reference_flow |-> is_ref]

\* an Optional[int] that is None (the numbers of the documents are not
\* negative)
NoInt == 0 - 1

\* bool(ref_flow_id) of an Optional[int]
RefTruthy(ref_flow_id) == ref_flow_id # NoInt /\ ref_flow_id # 0

\* a flag computed without the truthiness test of the pointer
IsRef_NoFalsyCheck(internal_id, ref_flow_id) == internal_id = ref_flow_id

\* is_ref = internal_id == ref_flow_id if ref_flow_id else False
IsRef(internal_id, ref_flow_id) ==
    IF RefTruthy(ref_flow_id) THEN internal_id = ref_flow_id ELSE FALSE

\* a skip test that looks at the flow only
Incomplete_FlowOnly(exchange) == exchange.flow = None

\* None in (flow, direction, amount)
Incomplete(exchange) ==
    None \in {exchange.flow, exchange.direction, exchange.amount}

\* a has_reference_flow computed as bool(ref_flow_id)
HasReferenceFlow_Truthy(ref_flow_id) == RefTruthy(ref_flow_id)

\* "has_reference_flow": ref_flow_id is not None
HasReferenceFlow(ref_flow_id) == ref_flow_id # NoInt

\* the loop of _parse_exchanges over the remaining elements; the outcome is
\* the list, or the exception of the first element that raises
RECURSIVE ExchangesFrom(_, _, _)
ExchangesFrom(elements, ref_flow_id, exchanges) ==
    IF elements = <<>> THEN Return(exchanges)
    ELSE LET exchange == Head(elements)
             internal_id == int(exchange.dataSetInternalID)
         IN IF internal_id.kind = "raise" THEN internal_id
            ELSE IF Incomplete(exchange)
            THEN ExchangesFrom(Tail(elements), ref_flow_id, exchanges)
            ELSE LET amount == float(TextOf(exchange.amount))
                 IN IF amount.kind = "raise" THEN amount
                    ELSE ExchangesFrom(Tail(elements), ref_flow_id,
                            Append(exchanges,
                                Exchange(TextOf(exchange.flow),
                                         TextOf(exchange.direction),
                                         amount.value,
                                         exchange.refObjectId, "", "", "",
                                         IsRef(internal_id.value, ref_flow_id))))

_parse_exchanges(root, ref_flow_id) ==
    ExchangesFrom(IF root.kind = "dataset" THEN root.exchange ELSE <<>>,
                  ref_flow_id, <<>>)

parse_dataset(content) ==
    IF ~WellFormed(content) THEN Raise("ParseError")
    ELSE LET root == content
             ref_elem == root.referenceToReferenceFlow
             ref_flow_id == IF ref_elem # None THEN int(TextOf(ref_elem))
                            ELSE Return(NoInt)
         IN IF ref_flow_id.kind = "raise" THEN ref_flow_id
            ELSE LET exchanges == _parse_exchanges(root, ref_flow_id.value)
                 IN IF exchanges.kind = "raise" THEN exchanges
                    ELSE Return(
                        [name |-> _get_text_de(root.header.baseName),
                         uuid |-> _get_text(root.header.UUID),
                         description |-> _get_text_de(root.header.generalComment),
                         exchanges |-> exchanges.value,
                         reference_year |-> _get_text(root.header.referenceYear),
                         geography |-> _get_geography(root.header.geography),
                         technology |-> _get_text_de(root.header.technology),
                         functional_unit |->
                             _get_text_de(root.header.functionalUnit),
                         has_reference_flow |->
                             HasReferenceFlow(ref_flow_id.value)])

(***************************************************************************)
(* The formatter.  A line of the text is a tuple of its parts.             *)
(***************************************************************************)
NoReferenceWarning == <<"\nWarning: No reference flow defined for this dataset">>
UnmatchedWarning ==
    <<"\nWarning: Reference flow ID found but no matching exchange">>
Rule == <<"----------------------------------------">>

\* _append_text_section
_append_text_section(output, title, txt) ==
    IF Truthy(txt) THEN output \o <<<<title>>, Rule, <<Truncate(txt)>>>>
    ELSE output

\* sorted(exchanges, key=lambda x: abs(x.amount), reverse=True): insertion
\* of e behind every element whose key is not smaller (the sort is stable)
RECURSIVE InsertByAmount(_, _)
InsertByAmount(e, sorted) ==
    IF sorted = <<>> THEN <<e>>
    ELSE IF abs(Head(sorted).amount) >= abs(e.amount)
         THEN <<Head(sorted)>> \o InsertByAmount(e, Tail(sorted))
         ELSE <<e>> \o sorted

RECURSIVE SortedByAmount(_)
SortedByAmount(exchanges) ==
    IF exchanges = <<>> THEN <<>>
    ELSE InsertByAmount(exchanges[Len(exchanges)],
                        SortedByAmount(SubSeq(exchanges, 1, Len(exchanges) - 1)))

InputLines(inputs) ==
    [k \in DOMAIN inputs |-> <<"  ", inputs[k].flow_name, FormatG(inputs[k].amount)>>]

OutputLines(outputs) ==
    [k \in DOMAIN outputs |->
        <<IF outputs[k].is_reference_flow THEN "* " ELSE "  ",
          outputs[k].flow_name, FormatG(outputs[k].amount)>>]

\* _append_exchanges_section
_append_exchanges_section(output, dataset_info) ==
    IF dataset_info.exchanges = <<>> THEN output
    ELSE LET inputs == SelectSeq(dataset_info.exchanges,
                                 LAMBDA e : e.direction = "Input")
             outputs == SelectSeq(dataset_info.exchanges,
                                  LAMBDA e : e.direction = "Output")
             o1 == IF inputs # <<>>
                   THEN output \o <<<<"\nInputs:">>, Rule>>
                               \o InputLines(SortedByAmount(inputs))
                   ELSE output
             ref_found == \E k \in DOMAIN outputs : outputs[k].is_reference_flow
             o2 == IF outputs # <<>>
                   THEN o1 \o <<<<"\nOutputs:">>, Rule>>
                           \o OutputLines(SortedByAmount(outputs))
                           \o (IF ~ref_found /\ dataset_info.has_reference_flow
                               THEN <<UnmatchedWarning>> ELSE <<>>)
                   ELSE o1
         IN o2

format_dataset_info(dataset_info) ==
    LET o1 == <<<<"\nDataset: ", dataset_info.name>>,
                <<"UUID: ", dataset_info.uuid>>,
                <<"Reference Year: ", dataset_info.reference_year>>,
                <<"Geography: ", dataset_info.geography>>,
                <<"Functional Unit: ", dataset_info.functional_unit>>>>
        o2 == IF ~dataset_info.has_reference_flow
              THEN Append(o1, NoReferenceWarning) ELSE o1
        o3 == _append_text_section(o2, "\nDescription:", dataset_info.description)
        o4 == _append_text_section(o3, "\nTechnology Description:",
                                  dataset_info.technology)
    IN _append_exchanges_section(o4, dataset_info)

(***************************************************************************)
(* Flow documents.                                                         *)
(***************************************************************************)
CategoryDocText == <<"Category 1", "Category 2", "Category 3", "Category 4">>

\* a category element: its level attribute and its text
CategoryLevels == {"1", "2", "3"}

CategoriesOf(levels) ==
    [k \in DOMAIN levels |-> [level |-> levels[k], text |-> CategoryDocText[k]]]

\* A flow element: what find() returns for sapi:uuid, sapi:name, f:type and
\* f:defaultUnit, and the list findall() returns for sapi:category.
FlowElements ==
    {[uuid |-> u, name |-> n, type |-> t, defaultUnit |-> d,
      category |-> CategoriesOf(levels)] :
        u \in {None, NoText, "flow-1"}, n \in {None, "Flow 1"},
        t \in {None, "Product flow"}, d \in {None, "kg"},
        levels \in SeqUpTo(CategoryLevels, MaxCategories)}


\* the text of the first category, whatever its level
FirstLevel2_AnyLevel(categories) ==
    IF categories = <<>> THEN None ELSE Head(categories).text

\* next((c.text for c in categories if c.get("level") == "2"), None)
RECURSIVE FirstLevel2(_)
FirstLevel2(categories) ==
    IF categories = <<>> THEN None
    ELSE IF Head(categories).level = "2" THEN Head(categories).text
    ELSE FirstLevel2(Tail(categories))

\* the loop of parse_flow_info over the remaining flow elements; .text of a
\* find() that returned None raises AttributeError
RECURSIVE FlowsFrom(_, _)
FlowsFrom(elements, flows) ==
    IF elements = <<>> THEN Return(flows)
    ELSE LET flow == Head(elements)
         IN IF None \in {flow.uuid, flow.name, flow.type, flow.defaultUnit}
            THEN Raise("AttributeError")
            ELSE FlowsFrom(Tail(elements),
                    Append(flows,
                        Exchange(TextOf(flow.name), "", 0, TextOf(flow.uuid),
                                 TextOf(flow.type), FirstLevel2(flow.category),
                                 TextOf(flow.defaultUnit), FALSE)))

\* a parse_flow_info that absorbs the ParseError as search_datasets does
parse_flow_info_Swallow(content) ==
    IF ~WellFormed(content) THEN Return(<<>>)
    ELSE FlowsFrom(IF content.kind = "flows" THEN content.flow ELSE <<>>, <<>>)

parse_flow_info(content) ==
    IF ~WellFormed(content) THEN Raise("ParseError")
    ELSE FlowsFrom(IF content.kind = "flows" THEN content.flow ELSE <<>>, <<>>)

(***************************************************************************)
(* Enrichment: the join of a dataset's exchanges with the flow metadata.   *)
(***************************************************************************)
FlowIdentifiers == {"flow-1", "flow-2", "flow-3"}

TypeDocText == <<"Product flow", "Waste flow", "Elementary flow", "Other flow">>
UnitDocText == <<"kg", "MJ", "m3", "pcs">>
DirectionDocText == <<"Output", "Input", "Output", "Input">>

\* the exchange parse_dataset extracts at position k, with a chosen flow
\* identifier and reference flag
DatasetExchangeAt(shape, k) ==
    Exchange(FlowDocText[k], DirectionDocText[k], AmountValue[AmountDocText[k]],
             shape.uuid, "", "", "", shape.is_reference_flow)

\* the record parse_flow_info produces at position k for a chosen identifier
FlowMetadataAt(uuid, k) ==
    Exchange("Flow name", "", 0, uuid, TypeDocText[k], CategoryDocText[k],
             UnitDocText[k], FALSE)

\* a lookup that keeps the first record of an identifier
LookupFrom_FirstWins(flow_metadata, lookup) ==
    [uuid \in {flow_metadata[m].uuid : m \in DOMAIN flow_metadata}
              \cup DOMAIN lookup |->
        IF uuid \in DOMAIN lookup THEN lookup[uuid]
        ELSE flow_metadata[CHOOSE m \in DOMAIN flow_metadata :
                /\ flow_metadata[m].uuid = uuid
                /\ \A n \in DOMAIN flow_metadata :
                      flow_metadata[n].uuid = uuid => m <= n]]

\* the lookup flow_identifier -> metadata record, filled in list order, a
\* later record replacing an earlier one with the same identifier
RECURSIVE LookupFrom(_, _)
LookupFrom(flow_metadata, lookup) ==
    IF flow_metadata = <<>> THEN lookup
    ELSE LookupFrom(Tail(flow_metadata),
                    (Head(flow_metadata).uuid :> Head(flow_metadata)) @@ lookup)

\* a join that carries unmatched exchanges through with empty metadata
EnrichFrom_LeftJoin(dataset_exchanges, lookup, enriched) ==
    enriched \o
    [k \in DOMAIN dataset_exchanges |->
        LET ex == dataset_exchanges[k]
        IN IF ex.uuid \in DOMAIN lookup
           THEN Exchange(ex.flow_name, ex.direction, ex.amount, ex.uuid,
                         lookup[ex.uuid].type, lookup[ex.uuid].category,
                         lookup[ex.uuid].unit, ex.is_reference_flow)
           ELSE ex]

\* the loop over the dataset exchanges: one new Exchange per exchange whose
\* identifier is in the lookup
RECURSIVE EnrichFrom(_, _, _)
EnrichFrom(dataset_exchanges, lookup, enriched) ==
    IF dataset_exchanges = <<>> THEN enriched
    ELSE LET ex == Head(dataset_exchanges)
         IN EnrichFrom(Tail(dataset_exchanges), lookup,
                IF ex.uuid \in DOMAIN lookup
                THEN Append(enriched,
                        Exchange(ex.flow_name, ex.direction, ex.amount, ex.uuid,
                                 lookup[ex.uuid].type, lookup[ex.uuid].category,
                                 lookup[ex.uuid].unit, ex.is_reference_flow))
                ELSE enriched)

enrich(dataset_exchanges, flow_metadata) ==
    EnrichFrom(dataset_exchanges, LookupFrom(flow_metadata, EmptyDict), <<>>)

(***************************************************************************)
(* The transport client: construction, the cached calls and the server.    *)
(***************************************************************************)
\* session.auth: None, or the pair (username, password)
NoAuth == <<>>

\* what a caller can pass for username and for password
Usernames == {None, "", "user"}
Passwords == {None, "", "pass"}

\* no SodaClient object yet; total_size is NoInt while the object has no
\* such attribute
NoClient == [exists |-> FALSE, auth |-> NoAuth, total_size |-> NoInt]

\* a constructor that authenticates with the username alone
SodaClient_UsernameOnly(username, password) ==
    IF Truthy(username)
    THEN Return([exists |-> TRUE, auth |-> <<username, password>>,
                 total_size |-> NoInt])
    ELSE Return([exists |-> TRUE, auth |-> NoAuth, total_size |-> NoInt])

\* SodaClient.__init__
SodaClient(username, password) ==
    IF Truthy(username) /\ Truthy(password)
    THEN Return([exists |-> TRUE, auth |-> <<username, password>>,
                 total_size |-> NoInt])
    ELSE IF Truthy(username) # Truthy(password)
    THEN Raise("ValueError")
    ELSE Return([exists |-> TRUE, auth |-> NoAuth, total_size |-> NoInt])

\* The server: two stocks; "s-1" holds two datasets, one of them matching
\* the query "q", and its listings declare their total; "s-2" holds one
\* dataset, matching no query, and its listings declare no total.
ServerStockUuids == {"s-1", "s-2"}
Queries == {"", "q"}

ServerStocks ==
    [kind |-> "stocks",
     dataStock |-> <<StockAt([ns |-> SAPI, uuid |-> "text", shortName |-> "text",
                              description |-> "text"], 1),
                     StockAt([ns |-> SAPI, uuid |-> "text", shortName |-> "text",
                              description |-> None], 2)>>]

ServerMatches(stock_uuid, query) ==
    IF stock_uuid = "s-1" THEN (IF query = "" THEN 2 ELSE 1)
    ELSE (IF query = "" THEN 1 ELSE 0)

ServerDeclaresTotal(stock_uuid) == stock_uuid = "s-1"

\* the body of the answer to GET datastocks/{stock_uuid}/processes with
\* startIndex and pageSize: the root's sapi:totalSize attribute and the
\* process elements of the page
ProcessesResponse(stock_uuid, query, start_index, page_size) ==
    LET matches == ServerMatches(stock_uuid, query)
        last == IF matches < start_index + page_size THEN matches
                ELSE start_index + page_size
    IN [kind |-> "search",
        totalSize |-> IF ServerDeclaresTotal(stock_uuid)
                      THEN Numerals[matches + 1] ELSE None,
        processes |-> [k \in 1..(last - start_index) |->
                          ProcessAt([path |-> 2, uuid |-> "text",
                                     name |-> "text"], start_index + k)]]

\* self.total_size after the body of search_datasets has run on a response
TotalSizeAfter(total_size, status_code, content) ==
    IF status_code = 200 /\ WellFormed(content) /\ Truthy(content.totalSize)
    THEN int(content.totalSize).value
    ELSE total_size

\* a test_connection that lets the failure of the request through
test_connection_Propagates(status_code) ==
    IF status_code = NoResponse THEN Raise("RequestException")
    ELSE Return(status_code = 200)

\* SodaClient.test_connection
test_connection(status_code) ==
    IF status_code = NoResponse THEN Return(FALSE)
    ELSE Return(status_code = 200)

\* the empty caches of the lru_cache decorators, one per decorated method
NoCache == [get_stocks |-> EmptyDict, search_datasets |-> EmptyDict,
            get_dataset |-> EmptyDict]

\* SodaClient.get_stocks under lru_cache: a cached list is returned without
\* a request; otherwise the body runs, whose loop over the namespaces is the
\* loop of parse_stocks
get_stocks(cache, status_code, content) ==
    IF <<>> \in DOMAIN cache THEN Return(cache[<<>>])
    ELSE IF status_code = NoResponse THEN Raise("RequestException")
    ELSE IF status_code # 200 THEN Raise("Exception")
    ELSE IF ~WellFormed(content) THEN Raise("Exception")
    ELSE Return(StocksFrom(content, 1))

\* the total the page info line reports
ReportedTotal(self, datasets) ==
    IF self.total_size # NoInt THEN self.total_size ELSE Len(datasets)

NothingShown == [kind |-> "none"]

\* SodaClient.search_datasets under lru_cache, called as the display and the
\* session call it: the returned list, and the client and the caches after
\* the call.  A cached list is returned without a request.
CachedSearch(self, cache, status_code, stock_uuid, query, page) ==
    LET key == <<stock_uuid, query, page, PageSize>>
        fetched(content, datasets) ==
            [datasets |-> datasets,
             client |-> [self EXCEPT !.total_size =
                            TotalSizeAfter(@, status_code, content)],
             lru_cache |-> [cache EXCEPT !.search_datasets =
                               (key :> datasets) @@ @]]
        requested(content) ==
            fetched(content, search_datasets(status_code, content).value)
    IN IF key \in DOMAIN cache.search_datasets
       THEN [datasets |-> cache.search_datasets[key], client |-> self,
             lru_cache |-> cache]
       ELSE requested(ProcessesResponse(stock_uuid, query, page * PageSize,
                                        PageSize))

\* what Display.show_datasets puts on the screen for the returned list
Listing(self, stock_uuid, query, page, datasets) ==
    IF datasets # <<>>
    THEN [kind |-> "listing", stock_uuid |-> stock_uuid,
          query |-> query, page |-> page,
          datasets |-> datasets,
          start_num |-> page * PageSize + 1,
          total_size |-> ReportedTotal(self, datasets)]
    ELSE [kind |-> "empty", stock_uuid |-> stock_uuid,
          query |-> query, page |-> page]

\* Session.current_stock is None
NoStock == <<>>

\* Session.__init__ (client is None: there is no SodaClient)
NewSession ==
    [current_stock |-> NoStock, stocks |-> <<>>, current_page |-> 0,
     current_query |-> ""]

(***************************************************************************)
(* ET.register_namespace, which parse_datasets_search and search_datasets  *)
(* call for each of their two prefixes.  The registry is a dict of the     *)
(* ElementTree module, uri -> prefix, shared by all threads; the function  *)
(* takes a snapshot of its items, deletes every key of the snapshot whose  *)
(* uri or prefix equals the new one, then stores the new entry.  The del   *)
(* of a key that is no longer in the dict raises KeyError.                 *)
(***************************************************************************)
\* namespaces.items() of parse_datasets_search, in insertion order
search_namespaces == <<[prefix |-> "sapi", uri |-> SAPI],
                       [prefix |-> "p", uri |-> PROCESS_NS]>>

\* the entries of the registry once a call has registered both prefixes
Registered == (SAPI :> "sapi") @@ (PROCESS_NS :> "p")

\* the keys of a snapshot that register_namespace(prefix, uri) deletes
Conflicting(snapshot, prefix, uri) ==
    {k \in DOMAIN snapshot : k = uri \/ snapshot[k] = prefix}

\* del d[k]
Without(d, k) == [j \in DOMAIN d \ {k} |-> d[j]]

\* the payloads the threads parse
ThreadInputs ==
    {Malformed,
     [kind |-> "search", processes |-> <<>>],
     [kind |-> "search",
      processes |-> <<ProcessAt([path |-> 2, uuid |-> "text", name |-> "text"], 1)>>]}

(***************************************************************************)
(* download_stock.  The body of the response arrives as a sequence of      *)
(* chunks, each a sequence of bytes; iter_content can yield empty chunks   *)
(* and can fail with a RequestException after some of them.                *)
(***************************************************************************)
Chunks == {<<>>, <<"a">>, <<"b", "c">>}

\* current_size += len(chunk), computed from the chunk alone
CurrentSizeAfter_ChunkOnly(current_size, chunk) == Len(chunk)

\* current_size += len(chunk)
CurrentSizeAfter(current_size, chunk) == current_size + Len(chunk)

\* the for loop over response.iter_content from chunk k on: the content so
\* far, the running size and the calls of the callback; the stream fails
\* once `received` chunks have been delivered
RECURSIVE DownloadFrom(_, _, _, _, _, _)
DownloadFrom(response, k, content, current_size, calls_made, progress_callback) ==
    IF k > response.received
    THEN [outcome |-> IF response.received < Len(response.chunks)
                      THEN Raise("Exception") ELSE Return(content),
          progress |-> calls_made]
    ELSE LET chunk == response.chunks[k]
         IN IF chunk = <<>>
            THEN DownloadFrom(response, k + 1, content, current_size,
                              calls_made, progress_callback)
            ELSE DownloadFrom(response, k + 1, content \o chunk,
                    CurrentSizeAfter(current_size, chunk),
                    IF progress_callback
                    THEN Append(calls_made,
                            [current |-> CurrentSizeAfter(current_size, chunk),
                             total |-> response.content_length])
                    ELSE calls_made,
                    progress_callback)

\* SodaClient.download_stock: a request without response and the HTTPError
\* of raise_for_status are raised again as Exception
download_stock(response, progress_callback) ==
    IF response.status_code # 200
    THEN [outcome |-> Raise("Exception"), progress |-> <<>>]
    ELSE DownloadFrom(response, 1, <<>>, 0, <<>>, progress_callback)

(***************************************************************************)
(* The interactive session (ui/session.py).  The session owns a client, the *)
(* list of stocks, the selected stock, the page and the query.  A command  *)
(* of the main loop and a method of Session are handlers; handler names    *)
(* tell apart the copies of one command that the module implements more    *)
(* than once.                                                              *)
(***************************************************************************)
\* a handler printed a message and returned
Message(m) == [kind |-> "message", value |-> None, exc |-> m]

\* the answers of click.prompt in connect_to_node: no authentication, or a
\* username and a password, both non-empty
PromptedCredentials == {<<None, None>>, <<"user", "pass">>}

\* the stock list the server serves: the first n stocks
ServedStocks(n) == [ServerStocks EXCEPT !.dataStock = SubSeq(@, 1, n)]

\* the overview document the server serves for a dataset
ServerDataset(dataset_uuid) ==
    DatasetDocument([GermanHeader EXCEPT !.UUID = dataset_uuid], None, <<>>)

\* SodaClient.get_dataset under lru_cache; _parse_dataset reads the fields
\* parse_dataset reads
get_dataset(cache, status_code, dataset_uuid) ==
    IF dataset_uuid \in DOMAIN cache THEN Return(cache[dataset_uuid])
    ELSE IF status_code # 200 THEN Raise("Exception")
    ELSE parse_dataset(ServerDataset(dataset_uuid))

\* Display.show_datasets as the session calls it, with its own stock, page
\* and query; an exception inside it is caught and an empty list returned
show_datasets(sess, self, cache, status_code) ==
    LET displayed(stock_uuid, search) ==
            [datasets |-> search.datasets, client |-> search.client,
             lru_cache |-> search.lru_cache,
             shown |-> Listing(search.client, stock_uuid, sess.current_query,
                               sess.current_page, search.datasets)]
        called_with(stock_uuid) ==
            displayed(stock_uuid,
                      CachedSearch(self, cache, status_code, stock_uuid,
                                   sess.current_query, sess.current_page))
    IN IF ~self.exists \/ sess.current_stock = NoStock
       THEN [datasets |-> <<>>, client |-> self, lru_cache |-> cache,
             shown |-> [kind |-> "error"]]
       ELSE called_with(sess.current_stock[1]["uuid"])

\* a connect that keeps the client whose connection test failed
connect_to_node_KeepsClient(sess, status_code, later, content, username, password) ==
    LET failed(session_after) ==
            [returned |-> FALSE, client |-> NoClient, lru_cache |-> NoCache,
             session |-> session_after]
        fetched(made, stocks) ==
            IF stocks.kind = "raise" THEN failed(sess)
            ELSE IF stocks.value = <<>>
            THEN failed([sess EXCEPT !.stocks = stocks.value])
            ELSE [returned |-> TRUE, client |-> made.value,
                  lru_cache |-> [NoCache EXCEPT !.get_stocks =
                                    <<>> :> stocks.value],
                  session |-> [sess EXCEPT !.stocks = stocks.value]]
        constructed(made) ==
            IF made.kind = "raise" THEN failed(sess)
            ELSE IF ~test_connection(status_code).value
            THEN [returned |-> FALSE, client |-> made.value,
                  lru_cache |-> NoCache, session |-> sess]
            ELSE fetched(made, get_stocks(EmptyDict, later, content))
    IN constructed(SodaClient(username, password))

\* connect_to_node: the connection is tested on one answer of the server
\* and the stocks are fetched on its next one
connect_to_node(sess, status_code, later, content, username, password) ==
    LET failed(session_after) ==
            [returned |-> FALSE, client |-> NoClient, lru_cache |-> NoCache,
             session |-> session_after]
        fetched(made, stocks) ==
            IF stocks.kind = "raise" THEN failed(sess)
            ELSE IF stocks.value = <<>>
            THEN failed([sess EXCEPT !.stocks = stocks.value])
            ELSE [returned |-> TRUE, client |-> made.value,
                  lru_cache |-> [NoCache EXCEPT !.get_stocks =
                                    <<>> :> stocks.value],
                  session |-> [sess EXCEPT !.stocks = stocks.value]]
        constructed(made) ==
            IF made.kind = "raise" THEN failed(sess)
            ELSE IF ~test_connection(status_code).value THEN failed(sess)
            ELSE fetched(made, get_stocks(EmptyDict, later, content))
    IN constructed(SodaClient(username, password))

\* the index into the fetched page that a dataset number stands for
DatasetIndex(handler, number, sess) ==
    IF handler = "start" THEN number - sess.current_page * PageSize - 1
    ELSE number - 1

\* a next that keeps the increment
PageAfterNext_Always(current_page, datasets) == current_page + 1

\* the page after next: the increment is taken back when nothing was shown
PageAfterNext(current_page, datasets) ==
    IF datasets = <<>> THEN current_page ELSE current_page + 1

\* a back out of a stock that forgets the stock list
BackFromDatasets_ClearsStocks(handler, sess) ==
    [sess EXCEPT !.current_stock = NoStock, !.current_page = 0,
                 !.current_query = "", !.stocks = <<>>]

\* back out of a stock
BackFromDatasets(handler, sess) ==
    IF handler = "handle_back"
    THEN [sess EXCEPT !.current_stock = NoStock, !.current_query = ""]
    ELSE [sess EXCEPT !.current_stock = NoStock, !.current_page = 0,
                      !.current_query = ""]

\* a back out of a node that keeps the stock list
BackFromStocks_KeepsStocks(sess) == sess

\* back out of a node
BackFromStocks(sess) == [sess EXCEPT !.stocks = <<>>]

(***************************************************************************)
(* Specification: a payload arrives and one parse function is applied.     *)
(***************************************************************************)
\* no client has been constructed
ClientIdle ==
    /\ client = NoClient
    /\ lru_cache = NoCache
    /\ server_status = 200
    /\ shown = NothingShown
    /\ calls = 0

\* no thread is running
ThreadsIdle ==
    /\ registry = EmptyDict
    /\ threads = <<>>

\* no download has reported progress
DownloadIdle == progress = <<>>

\* Session.__init__, and a server that serves its two stocks
SessionIdle ==
    /\ session = NewSession
    /\ server_stocks = Len(ServerStocks.dataStock)

\* the payloads and arguments the calls are applied to
StockInput ==
    \E n \in 0..MaxStocks : \E shapes \in [1..n -> StockShapes] :
        xml_content = [kind |-> "stocks",
                       dataStock |-> [k \in 1..n |-> StockAt(shapes[k], k)]]

SearchInput ==
    \E n \in 0..MaxProcesses : \E shapes \in [1..n -> ProcessShapes] :
        xml_content = [kind |-> "search",
                       processes |-> [k \in 1..n |-> ProcessAt(shapes[k], k)]]

ProcessInput == xml_content \in ProcessInputs

\* documents that vary the exchanges and the pointer under one header
ExchangeInput ==
    \E n \in 0..MaxExchanges : \E shapes \in [1..n -> ExchangeShapes] :
        \E pointer \in ReferencePointers :
            xml_content = DatasetDocument(GermanHeader, pointer,
                              [k \in 1..n |-> ExchangeAt(shapes[k], k)])

\* documents that vary the header, without exchanges
HeaderInput ==
    \E header \in Headers, pointer \in {None, "1"} :
        xml_content = DatasetDocument(header, pointer, <<>>)

FlowInput ==
    \E n \in 0..MaxFlows : \E f \in [1..n -> FlowElements] :
        xml_content = [kind |-> "flows", flow |-> f]

\* the two lists handed to enrich
EnrichInput ==
    \E n \in 0..MaxEnrichExchanges : \E m \in 0..MaxMetadata :
        \E shapes \in [1..n -> [uuid : FlowIdentifiers,
                                is_reference_flow : BOOLEAN]] :
            \E uuids \in [1..m -> FlowIdentifiers] :
                xml_content =
                    [kind |-> "enrich",
                     dataset_exchanges |->
                         [k \in 1..n |-> DatasetExchangeAt(shapes[k], k)],
                     flow_metadata |->
                         [k \in 1..m |-> FlowMetadataAt(uuids[k], k)]]

\* the response to an export request and whether a callback is passed;
\* content_length is int(response.headers.get("content-length", 0))
RECURSIVE Concat(_)
Concat(chunks) ==
    IF chunks = <<>> THEN <<>> ELSE Head(chunks) \o Concat(Tail(chunks))

DownloadInput ==
    \E n \in 0..MaxChunks : \E chunks \in [1..n -> Chunks] :
        \E received \in 0..n, status_code \in ServerAnswers,
           declared \in BOOLEAN, progress_callback \in BOOLEAN :
            xml_content =
                [kind |-> "export",
                 status_code |-> status_code,
                 chunks |-> chunks,
                 received |-> received,
                 content_length |-> IF declared THEN Len(Concat(chunks)) ELSE 0,
                 progress_callback |-> progress_callback]

Init ==
    /\ \/ xml_content = Malformed
       \/ StockInput
       \/ SearchInput
       \/ ProcessInput
       \/ ExchangeInput
       \/ HeaderInput
       \/ FlowInput
       \/ EnrichInput
       \/ DownloadInput
    /\ called = "none"
    /\ outcome = NotCalled
    /\ text = <<>>
    /\ ClientIdle
    /\ ThreadsIdle
    /\ DownloadIdle
    /\ SessionIdle

ParseStocks ==
    /\ called = "none"
    /\ xml_content.kind \in {"malformed", "stocks"}
    /\ called' = "parse_stocks"
    /\ outcome' = parse_stocks(xml_content)
    /\ UNCHANGED <<xml_content, text, clientVars, threadVars, downloadVars,
                   sessionVars>>

ParseDatasetsSearch ==
    /\ called = "none"
    /\ xml_content.kind \in {"malformed", "search"}
    /\ called' = "parse_datasets_search"
    /\ outcome' = parse_datasets_search(xml_content)
    /\ UNCHANGED <<xml_content, text, clientVars, threadVars, downloadVars,
                   sessionVars>>

ParseProcessElement ==
    /\ called = "none"
    /\ xml_content.kind = "process"
    /\ called' = "_parse_process_element"
    /\ outcome' = Return(_parse_process_element(xml_content.process))
    /\ UNCHANGED <<xml_content, text, clientVars, threadVars, downloadVars,
                   sessionVars>>

\* SodaClient.search_datasets on a response with the payload as its body
SearchDatasets ==
    /\ called = "none"
    /\ xml_content.kind \in {"malformed", "search"}
    /\ \E status_code \in StatusCodes :
          /\ called' = "search_datasets"
          /\ outcome' = search_datasets(status_code, xml_content)
    /\ UNCHANGED <<xml_content, text, clientVars, threadVars, downloadVars,
                   sessionVars>>

ParseDataset ==
    /\ called = "none"
    /\ xml_content.kind \in {"malformed", "dataset"}
    /\ called' = "parse_dataset"
    /\ outcome' = parse_dataset(xml_content)
    /\ UNCHANGED <<xml_content, text, clientVars, threadVars, downloadVars,
                   sessionVars>>

\* the caller renders the parsed dataset
FormatDatasetInfo ==
    /\ called = "parse_dataset"
    /\ outcome.kind = "return"
    /\ called' = "format_dataset_info"
    /\ text' = format_dataset_info(outcome.value)
    /\ UNCHANGED <<xml_content, outcome, clientVars, threadVars, downloadVars,
                   sessionVars>>

ParseFlowInfo ==
    /\ called = "none"
    /\ xml_content.kind \in {"malformed", "flows"}
    /\ called' = "parse_flow_info"
    /\ outcome' = parse_flow_info(xml_content)
    /\ UNCHANGED <<xml_content, text, clientVars, threadVars, downloadVars,
                   sessionVars>>

Enrich ==
    /\ called = "none"
    /\ xml_content.kind = "enrich"
    /\ called' = "enrich"
    /\ outcome' = Return(enrich(xml_content.dataset_exchanges,
                                xml_content.flow_metadata))
    /\ UNCHANGED <<xml_content, text, clientVars, threadVars, downloadVars,
                   sessionVars>>

DownloadStock ==
    /\ called = "none"
    /\ xml_content.kind = "export"
    /\ called' = "download_stock"
    /\ LET result == download_stock(xml_content, xml_content.progress_callback)
       IN /\ outcome' = result.outcome
          /\ progress' = result.progress
    /\ UNCHANGED <<xml_content, text, clientVars, threadVars, sessionVars>>

Next ==
    \/ DownloadStock
    \/ Enrich
    \/ ParseStocks
    \/ ParseDataset
    \/ FormatDatasetInfo
    \/ ParseFlowInfo
    \/ ParseDatasetsSearch
    \/ ParseProcessElement
    \/ SearchDatasets

Spec == Init /\ [][Next]_vars

(***************************************************************************)
(* Specification of the client: a SodaClient is constructed, then its      *)
(* stocks are fetched and dataset listings are shown, while the server's   *)
(* status changes.                                                         *)
(***************************************************************************)
InitClient ==
    /\ xml_content = Malformed
    /\ called = "none"
    /\ outcome = NotCalled
    /\ text = <<>>
    /\ ClientIdle
    /\ ThreadsIdle
    /\ DownloadIdle
    /\ SessionIdle

Construct(username, password) ==
    /\ ~client.exists
    /\ called' = "SodaClient"
    /\ outcome' = SodaClient(username, password)
    /\ client' = IF outcome'.kind = "return" THEN outcome'.value ELSE client
    /\ UNCHANGED <<xml_content, text, lru_cache, server_status, shown, calls,
                   threadVars, downloadVars,
                   sessionVars>>

\* the server starts or stops answering with an error, or becomes
\* unreachable
ServerStatusChanges ==
    /\ \E status_code \in ServerAnswers \ {server_status} :
          server_status' = status_code
    /\ UNCHANGED <<xml_content, called, outcome, text, client, lru_cache,
                   shown, calls, threadVars, downloadVars,
                   sessionVars>>

TestConnection ==
    /\ client.exists
    /\ calls < MaxCalls
    /\ calls' = calls + 1
    /\ called' = "test_connection"
    /\ outcome' = test_connection(server_status)
    /\ UNCHANGED <<xml_content, text, client, lru_cache, server_status, shown,
                   threadVars, downloadVars,
                   sessionVars>>

GetStocks ==
    /\ client.exists
    /\ calls < MaxCalls
    /\ calls' = calls + 1
    /\ called' = "get_stocks"
    /\ outcome' = get_stocks(lru_cache.get_stocks, server_status, ServerStocks)
    /\ lru_cache' = IF outcome'.kind = "return"
                    THEN [lru_cache EXCEPT !.get_stocks = <<>> :> outcome'.value]
                    ELSE lru_cache
    /\ UNCHANGED <<xml_content, text, client, server_status, shown, threadVars, downloadVars,
                   sessionVars>>

\* Display.show_datasets: the cached search_datasets call and the page info
ShowDatasets(stock_uuid, query, page) ==
    /\ client.exists
    /\ calls < MaxCalls
    /\ calls' = calls + 1
    /\ called' = "show_datasets"
    /\ \E search \in {CachedSearch(client, lru_cache, server_status,
                                   stock_uuid, query, page)} :
          /\ client' = search.client
          /\ lru_cache' = search.lru_cache
          /\ outcome' = Return(search.datasets)
          /\ shown' = Listing(search.client, stock_uuid, query, page,
                              search.datasets)
    /\ UNCHANGED <<xml_content, text, server_status, threadVars, downloadVars,
                   sessionVars>>

NextClient ==
    \/ \E username \in Usernames, password \in Passwords :
          Construct(username, password)
    \/ ServerStatusChanges
    \/ TestConnection
    \/ GetStocks
    \/ \E stock_uuid \in ServerStockUuids, query \in Queries, page \in 0..MaxPage :
          ShowDatasets(stock_uuid, query, page)

SpecClient == InitClient /\ [][NextClient]_vars

(***************************************************************************)
(* Specification of concurrent calls: each thread calls                    *)
(* parse_datasets_search once on its own payload; the threads interleave   *)
(* between the statements of register_namespace.                           *)
(***************************************************************************)
Threads == 1..MaxThreads

\* the registry is fresh, or an earlier call has filled it
InitThreads ==
    /\ xml_content = Malformed
    /\ called = "none"
    /\ outcome = NotCalled
    /\ text = <<>>
    /\ ClientIdle
    /\ DownloadIdle
    /\ SessionIdle
    /\ registry \in {EmptyDict, Registered}
    /\ \E inputs \in [Threads -> ThreadInputs] :
          threads = [t \in Threads |->
                       [pc |-> "call", xml_content |-> inputs[t], i |-> 1,
                        pending |-> {}, outcome |-> NotCalled]]

\* root = ET.fromstring(xml_content)
FromString(t) ==
    /\ threads[t].pc = "call"
    /\ threads' = [threads EXCEPT ![t] =
          IF WellFormed(@.xml_content) THEN [@ EXCEPT !.pc = "register"]
          ELSE [@ EXCEPT !.pc = "done", !.outcome = Raise("ParseError")]]
    /\ UNCHANGED <<xml_content, called, outcome, text, clientVars, registry,
                   downloadVars, sessionVars>>

\* for k, v in list(_namespace_map.items())
Snapshot(t) ==
    /\ threads[t].pc = "register"
    /\ threads' = [threads EXCEPT ![t] =
          [@ EXCEPT !.pc = "delete",
                    !.pending = Conflicting(registry,
                                    search_namespaces[threads[t].i].prefix,
                                    search_namespaces[threads[t].i].uri)]]
    /\ UNCHANGED <<xml_content, called, outcome, text, clientVars, registry,
                   downloadVars, sessionVars>>

\* del _namespace_map[k]
Delete(t) ==
    /\ threads[t].pc = "delete"
    /\ \E k \in threads[t].pending :
          IF k \in DOMAIN registry
          THEN /\ registry' = Without(registry, k)
               /\ threads' = [threads EXCEPT ![t].pending = @ \ {k}]
          ELSE /\ registry' = registry
               /\ threads' = [threads EXCEPT ![t] =
                     [@ EXCEPT !.pc = "done", !.outcome = Raise("KeyError")]]
    /\ UNCHANGED <<xml_content, called, outcome, text, clientVars,
                   downloadVars, sessionVars>>

\* _namespace_map[uri] = prefix, then the next prefix or the rest of the body
Register(t) ==
    /\ threads[t].pc = "delete"
    /\ threads[t].pending = {}
    /\ registry' = (search_namespaces[threads[t].i].uri :>
                        search_namespaces[threads[t].i].prefix)
                   @@ Without(registry, search_namespaces[threads[t].i].uri)
    /\ threads' = [threads EXCEPT ![t] =
          IF @.i < Len(search_namespaces)
          THEN [@ EXCEPT !.pc = "register", !.i = @ + 1]
          ELSE [@ EXCEPT !.pc = "findall"]]
    /\ UNCHANGED <<xml_content, called, outcome, text, clientVars,
                   downloadVars, sessionVars>>

\* the loop over the paths and the return
ReturnDatasets(t) ==
    /\ threads[t].pc = "findall"
    /\ threads' = [threads EXCEPT ![t] =
          [@ EXCEPT !.pc = "done",
                    !.outcome = Return(DatasetsFrom(threads[t].xml_content,
                                                    1, <<>>))]]
    /\ UNCHANGED <<xml_content, called, outcome, text, clientVars, registry,
                   downloadVars, sessionVars>>

NextThreads ==
    \E t \in Threads :
        \/ FromString(t)
        \/ Snapshot(t)
        \/ Delete(t)
        \/ Register(t)
        \/ ReturnDatasets(t)

SpecThreads == InitThreads /\ [][NextThreads]_vars

(***************************************************************************)
(* Specification of the session: commands arrive one after the other, at   *)
(* the main loop or at the methods of Session, while the server's answer   *)
(* and the stock list it serves change in between.                         *)
(***************************************************************************)
SelectHandlers == {"start", "handle_command", "select_stock"}
BackHandlers == {"start", "handle_command", "handle_back"}
RefreshHandlers == {"start", "handle_command", "refresh_stocks"}
DatasetHandlers == {"start", "handle_dataset_command"}

\* the numbers a user types
Numbers == 0..(PageSize * (MaxPage + 1) + 1)

InitSession ==
    /\ xml_content = Malformed
    /\ called = "none"
    /\ outcome = NotCalled
    /\ text = <<>>
    /\ ClientIdle
    /\ ThreadsIdle
    /\ DownloadIdle
    /\ session = NewSession
    /\ server_stocks \in 0..Len(ServerStocks.dataStock)

ServerStocksChange ==
    /\ \E n \in 0..Len(ServerStocks.dataStock) :
          n # server_stocks /\ server_stocks' = n
    /\ UNCHANGED <<xml_content, called, outcome, text, clientVars, threadVars,
                   downloadVars, session>>

\* one command is read and handled
Command(name) ==
    /\ calls < MaxCommands
    /\ calls' = calls + 1
    /\ called' = name
    /\ UNCHANGED <<xml_content, text, threadVars, downloadVars, server_stocks>>

\* the command stores its fields and shows the listing
Shows(after) ==
    \E show \in {show_datasets(after, client, lru_cache, server_status)} :
       /\ session' = after
       /\ client' = show.client
       /\ lru_cache' = show.lru_cache
       /\ shown' = show.shown
       /\ outcome' = Return(show.datasets)

\* the dataset commands are offered once a stock is selected;
\* handle_command passes them on when a client is connected as well
InDatasetView(handler) ==
    IF handler = "start" THEN session.current_stock # NoStock
    ELSE client.exists /\ session.current_stock # NoStock

\* a node number or a url is entered in the node view
Connect(username, password, later) ==
    /\ ~client.exists
    /\ Command("connect")
    /\ \E result \in {connect_to_node(session, server_status, later,
                                      ServedStocks(server_stocks),
                                      username, password)} :
          /\ client' = result.client
          /\ lru_cache' = result.lru_cache
          /\ session' = result.session
          /\ outcome' = Return(result.returned)
    /\ server_status' = later
    /\ UNCHANGED shown

Select(handler, number) ==
    /\ handler # "select_stock" =>
          client.exists /\ session.current_stock = NoStock
    /\ Command("select")
    /\ IF number \in 1..Len(session.stocks)
       THEN Shows([session EXCEPT
                      !.current_stock = <<session.stocks[number]>>,
                      !.current_page = 0, !.current_query = ""])
       ELSE /\ outcome' = Message("Invalid stock number")
            /\ UNCHANGED <<session, client, lru_cache, shown>>
    /\ UNCHANGED server_status

\* a dataset number in the main loop, view in handle_dataset_command
Open(handler, number) ==
    /\ client.exists /\ session.current_stock # NoStock
    /\ Command("view")
    /\ \E search \in {CachedSearch(client, lru_cache, server_status,
                                   session.current_stock[1]["uuid"],
                                   session.current_query,
                                   session.current_page)},
          index \in {DatasetIndex(handler, number, session)} :
          IF 0 <= index /\ index < Len(search.datasets)
          THEN \E dataset_uuid \in {search.datasets[index + 1]["uuid"]} :
               \E dataset_info \in {get_dataset(search.lru_cache.get_dataset,
                                                server_status,
                                                dataset_uuid)} :
                  IF dataset_info.kind = "raise"
                  THEN /\ outcome' = dataset_info
                       /\ client' = search.client
                       /\ lru_cache' = search.lru_cache
                       /\ UNCHANGED shown
                  ELSE \E show \in {show_datasets(
                                       session, search.client,
                                       [search.lru_cache EXCEPT
                                           !.get_dataset =
                                              (dataset_uuid :>
                                                  dataset_info.value) @@ @],
                                       server_status)} :
                          /\ outcome' = dataset_info
                          /\ client' = show.client
                          /\ lru_cache' = show.lru_cache
                          /\ shown' = show.shown
          ELSE /\ outcome' = Message("Invalid dataset number")
               /\ client' = search.client
               /\ lru_cache' = search.lru_cache
               /\ UNCHANGED shown
    /\ UNCHANGED <<session, server_status>>

Help ==
    /\ Command("help")
    /\ IF client.exists /\ session.current_stock # NoStock
       THEN Shows(session)
       ELSE /\ outcome' = Message("commands")
            /\ UNCHANGED <<session, client, lru_cache, shown>>
    /\ UNCHANGED server_status

Back(handler) ==
    /\ Command("back")
    /\ outcome' = Message("back")
    /\ IF session.current_stock # NoStock
          /\ (handler = "handle_command" => client.exists)
       THEN /\ session' = BackFromDatasets(handler, session)
            /\ UNCHANGED <<client, lru_cache>>
       ELSE IF client.exists
       THEN /\ session' = BackFromStocks(session)
            /\ client' = NoClient
            /\ lru_cache' = NoCache
       ELSE UNCHANGED <<session, client, lru_cache>>
    /\ UNCHANGED <<server_status, shown>>

Refresh(handler) ==
    /\ handler = "start" => session.current_stock = NoStock
    /\ handler = "handle_command" =>
          client.exists /\ session.current_stock = NoStock
    /\ Command("refresh")
    /\ IF ~client.exists
       THEN /\ outcome' = Raise("AttributeError")
            /\ UNCHANGED <<session, lru_cache>>
       ELSE /\ outcome' = get_stocks(lru_cache.get_stocks, server_status,
                                     ServedStocks(server_stocks))
            /\ IF outcome'.kind = "return"
               THEN /\ session' = [session EXCEPT !.stocks = outcome'.value]
                    /\ lru_cache' = [lru_cache EXCEPT !.get_stocks =
                                        <<>> :> outcome'.value]
               ELSE UNCHANGED <<session, lru_cache>>
    /\ UNCHANGED <<client, server_status, shown>>

Search(handler, args) ==
    /\ InDatasetView(handler)
    /\ Command("search")
    /\ Shows([session EXCEPT !.current_query = args, !.current_page = 0])
    /\ UNCHANGED server_status

List(handler) ==
    /\ InDatasetView(handler)
    /\ Command("list")
    /\ Shows([session EXCEPT !.current_query = "", !.current_page = 0])
    /\ UNCHANGED server_status

NextPage(handler) ==
    /\ InDatasetView(handler)
    /\ Command("next")
    /\ \E show \in {show_datasets([session EXCEPT !.current_page = @ + 1],
                                  client, lru_cache, server_status)} :
          /\ session' = [session EXCEPT !.current_page =
                            PageAfterNext(@, show.datasets)]
          /\ client' = show.client
          /\ lru_cache' = show.lru_cache
          /\ shown' = show.shown
          /\ outcome' = Return(show.datasets)
    /\ UNCHANGED server_status

PrevPage(handler) ==
    /\ InDatasetView(handler)
    /\ Command("prev")
    /\ IF session.current_page > 0
       THEN Shows([session EXCEPT !.current_page = @ - 1])
       ELSE /\ outcome' = Message("Already at first page")
            /\ UNCHANGED <<session, client, lru_cache, shown>>
    /\ UNCHANGED server_status

NextSession ==
    \/ ServerStatusChanges
    \/ ServerStocksChange
    \/ \E credentials \in PromptedCredentials, later \in ServerAnswers :
          Connect(credentials[1], credentials[2], later)
    \/ \E handler \in SelectHandlers, number \in Numbers :
          Select(handler, number)
    \/ \E handler \in DatasetHandlers, number \in Numbers :
          Open(handler, number)
    \/ Help
    \/ \E handler \in BackHandlers : Back(handler)
    \/ \E handler \in RefreshHandlers : Refresh(handler)
    \/ \E handler \in DatasetHandlers, args \in Queries : Search(handler, args)
    \/ \E handler \in DatasetHandlers : List(handler)
    \/ \E handler \in DatasetHandlers : NextPage(handler)
    \/ \E handler \in DatasetHandlers : PrevPage(handler)

SpecSession == InitSession /\ [][NextSession]_vars

(***************************************************************************)
(* Properties.                                                             *)
(***************************************************************************)
ParseFunctions ==
    {"parse_stocks", "parse_datasets_search", "parse_dataset", "parse_flow_info"}

\* find() returned an element and the element has text
HasText(elem) == elem # None /\ elem # NoText

\* the least element of a non-empty set of numbers
Least(S) == CHOOSE i \in S : \A j \in S : i <= j

\* the stock elements of a document under one namespace that carry both an
\* identifier and a name
CompleteStocksIn(doc, ns) ==
    SelectSeq(doc.dataStock,
              LAMBDA e : e.ns = ns /\ HasText(e.uuid) /\ HasText(e.shortName))

\* the record a complete stock element stands for
StockRecord(e) ==
    (("uuid" :> e.uuid) @@ ("name" :> e.shortName))
        @@ (IF e.description = None THEN EmptyDict
            ELSE ("description" :>
                    (IF e.description = NoText THEN "" ELSE e.description)))

\* C1: parse_stocks returns exactly the stocks of the first binding, in the
\* order ServiceAPI, ServiceAPI with trailing slash, no namespace, under which
\* the document has an accepted stock; later bindings contribute nothing,
\* and without any accepted stock the result is the empty list, not an error.
C1_FirstBindingWins ==
    (called = "parse_stocks" /\ xml_content.kind = "stocks") =>
        /\ outcome.kind = "return"
        /\ LET yielding == {i \in DOMAIN namespaces :
                              CompleteStocksIn(xml_content, namespaces[i]) # <<>>}
           IN IF yielding = {} THEN outcome.value = <<>>
              ELSE LET expected == CompleteStocksIn(xml_content,
                                       namespaces[Least(yielding)])
                   IN /\ Len(outcome.value) = Len(expected)
                      /\ \A k \in DOMAIN expected :
                            outcome.value[k] = StockRecord(expected[k])

\* a document with an accepted stock without namespace followed by one in the
\* trailing-slash namespace: only the latter is returned
C1_Witness ==
    /\ called = "parse_stocks"
    /\ xml_content.kind = "stocks"
    /\ Len(xml_content.dataStock) = 2
    /\ CompleteStocksIn(xml_content, NoNamespace) = <<xml_content.dataStock[1]>>
    /\ CompleteStocksIn(xml_content, SAPI_SLASH) = <<xml_content.dataStock[2]>>
    /\ outcome.kind = "return"
    /\ outcome.value = <<StockRecord(xml_content.dataStock[2])>>

\* the text a field of a process element resolves to: that of the first
\* path whose element exists with text, None when there is none
ResolvedText(found) ==
    LET withText == {i \in DOMAIN found : HasText(found[i])}
    IN IF withText = {} THEN None ELSE found[Least(withText)]

\* the identifiers of the elements of a document that carry both an
\* identifier and a name
CompleteIdentifiers(doc) ==
    IF doc.kind = "stocks"
    THEN {doc.dataStock[k].uuid : k \in
            {j \in DOMAIN doc.dataStock :
                /\ HasText(doc.dataStock[j].uuid)
                /\ HasText(doc.dataStock[j].shortName)}}
    ELSE IF doc.kind = "search"
    THEN {ResolvedText(doc.processes[k].uuid) : k \in
            {j \in DOMAIN doc.processes :
                /\ ResolvedText(doc.processes[j].uuid) # None
                /\ ResolvedText(doc.processes[j].name) # None}}
    ELSE {}

\* C2: every record returned by parse_stocks, parse_datasets_search and
\* SodaClient.search_datasets has a non-empty identifier and a non-empty
\* name and comes from an element that carries both; an element without
\* one of them is dropped, and dropping is not an error.
C2_PresenceInvariant ==
    (/\ called \in {"parse_stocks", "parse_datasets_search", "search_datasets"}
     /\ xml_content.kind \in {"stocks", "search"}) =>
        /\ outcome.kind = "return"
        /\ \A k \in DOMAIN outcome.value :
              LET r == outcome.value[k]
              IN /\ {"uuid", "name"} \subseteq DOMAIN r
                 /\ r["uuid"] \notin {None, ""}
                 /\ r["name"] \notin {None, ""}
                 /\ r["uuid"] \in CompleteIdentifiers(xml_content)

\* a search document whose first process has a name element without text
\* and whose second process is complete: only the second is returned
C2_Witness ==
    /\ called = "parse_datasets_search"
    /\ xml_content.kind = "search"
    /\ Len(xml_content.processes) = 2
    /\ ResolvedText(xml_content.processes[1].uuid) # None
    /\ \E j \in DOMAIN name_paths : xml_content.processes[1].name[j] = NoText
    /\ ResolvedText(xml_content.processes[1].name) = None
    /\ outcome.kind = "return"
    /\ Len(outcome.value) = 1
    /\ outcome.value[1]["uuid"] = UuidDocText[2]

\* the complete process elements of a document under one top-level path
CompleteProcessesUnder(doc, p) ==
    SelectSeq(doc.processes,
              LAMBDA e : /\ e.path = p
                         /\ ResolvedText(e.uuid) # None
                         /\ ResolvedText(e.name) # None)

\* C3: parse_datasets_search returns only the datasets found under the first
\* top-level path that yields an accepted dataset; results of different
\* top-level paths are never merged.
C3_NoMergeAcrossPaths ==
    (called = "parse_datasets_search" /\ xml_content.kind = "search") =>
        /\ outcome.kind = "return"
        /\ LET yielding == {p \in DOMAIN paths :
                              CompleteProcessesUnder(xml_content, p) # <<>>}
           IN IF yielding = {} THEN outcome.value = <<>>
              ELSE LET expected == CompleteProcessesUnder(xml_content,
                                       Least(yielding))
                   IN /\ Len(outcome.value) = Len(expected)
                      /\ \A k \in DOMAIN expected :
                            outcome.value[k]["uuid"] =
                                ResolvedText(expected[k].uuid)

\* the record a process element stands for
DatasetRecord(process) ==
    LET uuid == ResolvedText(process.uuid)
        name == ResolvedText(process.name)
    IN (("dataset_type" :> "Process")
            @@ (IF uuid = None THEN EmptyDict ELSE ("uuid" :> uuid)))
            @@ (IF name = None THEN EmptyDict ELSE ("name" :> name))

\* C4: for a process element the identifier is the text of the first
\* identifier path whose element exists with text, and the name the text of
\* the first name path whose element exists with text; each is resolved from
\* its own paths only, and a field that resolves nowhere is left out.
C4_FieldsResolvedIndependently ==
    /\ called = "_parse_process_element" =>
          /\ outcome.kind = "return"
          /\ outcome.value = DatasetRecord(xml_content.process)
    /\ (called = "search_datasets" /\ xml_content.kind = "search"
            /\ outcome.value # <<>>) =>
          \A k \in DOMAIN outcome.value :
              \E j \in DOMAIN xml_content.processes :
                  outcome.value[k] = DatasetRecord(xml_content.processes[j])

\* the identifier resolves by the first path while the name, whose first
\* path has an element without text, resolves by the last one
C4_Witness ==
    /\ called = "_parse_process_element"
    /\ HasText(xml_content.process.uuid[1])
    /\ xml_content.process.name[1] = NoText
    /\ \A j \in 2..4 : xml_content.process.name[j] = None
    /\ HasText(xml_content.process.name[5])
    /\ outcome.value["uuid"] = UuidPathText[1]
    /\ outcome.value["name"] = NamePathText[5]

\* C5: a payload that is not well-formed XML makes each of the four parse
\* functions fail with ParseError; none of them returns a result for it.
C5_MalformedRaises ==
    (called \in ParseFunctions /\ xml_content.kind = "malformed") =>
        /\ outcome.kind = "raise"
        /\ outcome.exc = "ParseError"

\* parse_flow_info was applied to a malformed payload
C5_Witness ==
    /\ called = "parse_flow_info"
    /\ xml_content.kind = "malformed"
    /\ outcome.kind = "raise"
    /\ outcome.exc = "ParseError"

\* C6: for a well-formed document every parse function returns a result,
\* whichever elements, attributes or texts the document lacks.
C6_SchemaAbsenceNeverRaises ==
    (called \in ParseFunctions /\ xml_content.kind # "malformed") =>
        outcome.kind = "return"

\* the exchange elements of a dataset document that have a flow short
\* description, a direction and an amount
CompleteExchanges(doc) ==
    SelectSeq(doc.exchange,
              LAMBDA e : e.flow # None /\ e.direction # None /\ e.amount # None)

\* the flag of an exchange element under the pointer of its document
FlagOf(doc, e) ==
    /\ doc.referenceToReferenceFlow # None
    /\ doc.referenceToReferenceFlow # "0"
    /\ e.dataSetInternalID = doc.referenceToReferenceFlow

\* C7: an extracted exchange is flagged as reference flow if and only if the
\* document declares a pointer, the pointer is not 0 and the internal ID of
\* the exchange's element equals the pointer.
C7_ReferenceFlagging ==
    (called = "parse_dataset" /\ outcome.kind = "return") =>
        \A j \in DOMAIN outcome.value.exchanges :
            \E k \in DOMAIN xml_content.exchange :
                /\ xml_content.exchange[k].refObjectId =
                       outcome.value.exchanges[j].uuid
                /\ outcome.value.exchanges[j].is_reference_flow
                       <=> FlagOf(xml_content, xml_content.exchange[k])

\* internal IDs 1 and 2 with pointer 2: exactly the second exchange is flagged
C7_Witness ==
    /\ called = "parse_dataset"
    /\ outcome.kind = "return"
    /\ xml_content.referenceToReferenceFlow = "2"
    /\ Len(xml_content.exchange) = 2
    /\ xml_content.exchange[1].dataSetInternalID = "1"
    /\ xml_content.exchange[2].dataSetInternalID = "2"
    /\ Len(outcome.value.exchanges) = 2
    /\ ~outcome.value.exchanges[1].is_reference_flow
    /\ outcome.value.exchanges[2].is_reference_flow

\* C8: the dataset parse_dataset returns has has_reference_flow exactly when
\* the document declares a pointer element, whatever its value; without a
\* pointer element no exchange is flagged.
C8_HasReferenceFlowIffDeclared ==
    (called = "parse_dataset" /\ outcome.kind = "return") =>
        /\ outcome.value.has_reference_flow
               <=> xml_content.referenceToReferenceFlow # None
        /\ xml_content.referenceToReferenceFlow = None =>
               \A j \in DOMAIN outcome.value.exchanges :
                   ~outcome.value.exchanges[j].is_reference_flow

\* pointer 0 and an extracted exchange with internal ID 0: the pointer is
\* declared, the exchange is not flagged
C8_Witness ==
    /\ called = "parse_dataset"
    /\ outcome.kind = "return"
    /\ xml_content.referenceToReferenceFlow = "0"
    /\ Len(xml_content.exchange) = 1
    /\ xml_content.exchange[1].dataSetInternalID = "0"
    /\ outcome.value.has_reference_flow
    /\ Len(outcome.value.exchanges) = 1
    /\ ~outcome.value.exchanges[1].is_reference_flow

\* the pointer and every internal ID are numbers and every complete
\* exchange element has an amount text
NumbersPresent(doc) ==
    /\ doc.referenceToReferenceFlow # NoText
    /\ \A k \in DOMAIN doc.exchange :
          /\ doc.exchange[k].dataSetInternalID # None
          /\ doc.exchange[k].amount # NoText

C10_UnmatchedReferenceWarned ==
    (/\ called = "format_dataset_info"
     /\ outcome.value.has_reference_flow
     /\ \A j \in DOMAIN outcome.value.exchanges :
           ~outcome.value.exchanges[j].is_reference_flow) =>
        \E i \in DOMAIN text : text[i] = UnmatchedWarning


\* the dataset exchanges whose flow identifier occurs in the metadata
MatchedExchanges(input) ==
    SelectSeq(input.dataset_exchanges,
              LAMBDA ex : \E m \in DOMAIN input.flow_metadata :
                              input.flow_metadata[m].uuid = ex.uuid)

\* C11: enrich is a strict, stable inner join on the flow identifier: its
\* output has one record for each dataset exchange whose identifier occurs
\* in the metadata, none for the others, in the order of dataset_exchanges.
C11_InnerJoin ==
    called = "enrich" =>
        LET matched == MatchedExchanges(xml_content)
        IN /\ Len(outcome.value) = Len(matched)
           /\ \A j \in DOMAIN matched :
                 /\ outcome.value[j].flow_name = matched[j].flow_name
                 /\ outcome.value[j].uuid = matched[j].uuid

\* three exchanges with distinct identifiers and metadata for the first and
\* the third: two records, in that order
C11_Witness ==
    /\ called = "enrich"
    /\ Len(xml_content.dataset_exchanges) = 3
    /\ \A k \in 1..3 : xml_content.dataset_exchanges[k].uuid = FlowDocUuid[k]
    /\ {xml_content.flow_metadata[m].uuid : m \in DOMAIN xml_content.flow_metadata}
           = {FlowDocUuid[1], FlowDocUuid[3]}
    /\ Len(outcome.value) = 2
    /\ outcome.value[1].flow_name = FlowDocText[1]
    /\ outcome.value[2].flow_name = FlowDocText[3]

\* the last metadata record with a given identifier
LastMetadata(input, uuid) ==
    input.flow_metadata[
        CHOOSE m \in DOMAIN input.flow_metadata :
            /\ input.flow_metadata[m].uuid = uuid
            /\ \A n \in DOMAIN input.flow_metadata :
                  input.flow_metadata[n].uuid = uuid => n <= m]

\* C12: every enriched record has the name, direction, amount, identifier
\* and reference flag of its dataset exchange and the type, category and unit
\* of the last metadata record with the same identifier.
C12_EnrichedFields ==
    called = "enrich" =>
        LET matched == MatchedExchanges(xml_content)
        IN /\ Len(outcome.value) = Len(matched)
           /\ \A j \in DOMAIN matched :
                 LET r == outcome.value[j]
                     meta == LastMetadata(xml_content, matched[j].uuid)
                 IN /\ r.flow_name = matched[j].flow_name
                    /\ r.direction = matched[j].direction
                    /\ r.amount = matched[j].amount
                    /\ r.uuid = matched[j].uuid
                    /\ r.is_reference_flow = matched[j].is_reference_flow
                    /\ r.type = meta.type
                    /\ r.category = meta.category
                    /\ r.unit = meta.unit

\* two metadata records share the identifier of a flagged exchange: the
\* record takes the type of the second and keeps the flag
C12_Witness ==
    /\ called = "enrich"
    /\ Len(xml_content.flow_metadata) = 2
    /\ xml_content.flow_metadata[1].uuid = xml_content.flow_metadata[2].uuid
    /\ Len(xml_content.dataset_exchanges) = 1
    /\ xml_content.dataset_exchanges[1].uuid = xml_content.flow_metadata[1].uuid
    /\ xml_content.dataset_exchanges[1].is_reference_flow
    /\ Len(outcome.value) = 1
    /\ outcome.value[1].type = TypeDocText[2]
    /\ outcome.value[1].is_reference_flow


\* the element of a stocks document a returned record was built from
StockSource(doc, record) ==
    CHOOSE e \in {doc.dataStock[k] : k \in DOMAIN doc.dataStock} :
        e.uuid = record["uuid"]

\* C13: every stock record parse_stocks returns has a description, the empty
\* string when the stock has no description element or an empty one.
C13_DescriptionAlwaysPresent ==
    (called = "parse_stocks" /\ xml_content.kind = "stocks"
        /\ outcome.kind = "return") =>
        \A k \in DOMAIN outcome.value :
            LET record == outcome.value[k]
            IN /\ "description" \in DOMAIN record
               /\ StockSource(xml_content, record).description \in {None, NoText}
                     => record["description"] = ""

\* the document with the same stocks in the first namespace of the list
InFirstNamespace(doc) ==
    [kind |-> doc.kind,
     dataStock |-> [k \in DOMAIN doc.dataStock |->
                       [doc.dataStock[k] EXCEPT !.ns = namespaces[1]]]]

WithoutNamespace(doc) ==
    \A k \in DOMAIN doc.dataStock : doc.dataStock[k].ns = NoNamespace

\* C14: parse_stocks on a document whose stocks carry no namespace returns
\* the same records, in the same order, as on the document that carries the
\* same stocks in the first namespace of the list.
C14_NamespaceIndependence ==
    (called = "parse_stocks" /\ xml_content.kind = "stocks"
        /\ WithoutNamespace(xml_content)) =>
        outcome = parse_stocks(InFirstNamespace(xml_content))

\* two accepted stocks without namespace, both returned in document order
C14_Witness ==
    /\ called = "parse_stocks"
    /\ xml_content.kind = "stocks"
    /\ WithoutNamespace(xml_content)
    /\ Len(CompleteStocksIn(xml_content, NoNamespace)) = 2
    /\ outcome.kind = "return"
    /\ Len(outcome.value) = 2
    /\ outcome.value[1]["uuid"] = StockDocUuid[1]
    /\ outcome.value[2]["uuid"] = StockDocUuid[2]

\* the four language-filtered fields of a dataset and their elements
GermanFields(doc, dataset) ==
    {<<doc.header.baseName, dataset.name>>,
     <<doc.header.generalComment, dataset.description>>,
     <<doc.header.technology, dataset.technology>>,
     <<doc.header.functionalUnit, dataset.functional_unit>>}

\* C15 as stated: name, description, technology and functional_unit are the
\* text of the German element, None without a German element.
C15_GermanTextVerbatim ==
    (called = "parse_dataset" /\ outcome.kind = "return") =>
        \A f \in GermanFields(xml_content, outcome.value) :
            f[2] = IF f[1].de = None THEN None ELSE TextOf(f[1].de)

\* C15: name, description, technology and functional_unit are the text of
\* the first German element with leading and trailing whitespace removed,
\* None when that element has no text or does not exist; the text of the
\* English element is never returned.
C15_GermanLocale ==
    (called = "parse_dataset" /\ outcome.kind = "return") =>
        \A f \in GermanFields(xml_content, outcome.value) :
            /\ f[2] = IF HasText(f[1].de) THEN strip(f[1].de) ELSE None
            /\ f[1].en # None => f[2] # f[1].en

\* a base name in English only: name is None
C15_Witness ==
    /\ called = "parse_dataset"
    /\ outcome.kind = "return"
    /\ xml_content.header.baseName.de = None
    /\ xml_content.header.baseName.en = "Process"
    /\ outcome.value.name = None

\* C16: the category of a flow is the text of its first category element
\* with level "2", None when it has none; categories of other levels do not
\* matter, wherever they stand.
C16_CategoryIsLevel2 ==
    (called = "parse_flow_info" /\ outcome.kind = "return") =>
        /\ Len(outcome.value) = Len(xml_content.flow)
        /\ \A k \in DOMAIN xml_content.flow :
              LET categories == xml_content.flow[k].category
                  level2 == {i \in DOMAIN categories : categories[i].level = "2"}
              IN outcome.value[k].category =
                    IF level2 = {} THEN None
                    ELSE categories[Least(level2)].text

\* a level-1 category before a level-2 one: the second is the category
C16_Witness ==
    /\ called = "parse_flow_info"
    /\ outcome.kind = "return"
    /\ Len(xml_content.flow) = 1
    /\ Len(xml_content.flow[1].category) = 2
    /\ xml_content.flow[1].category[1].level = "1"
    /\ xml_content.flow[1].category[2].level = "2"
    /\ outcome.value[1].category = CategoryDocText[2]


\* C17: a call of parse_datasets_search that runs concurrently with others,
\* after any earlier calls, ends with the outcome the same call has alone.
C17_ConcurrentCallsAsAlone ==
    \A t \in DOMAIN threads :
        threads[t].pc = "done" =>
            threads[t].outcome = parse_datasets_search(threads[t].xml_content)

\* C18: a get_stocks call made while the server answers the stock listing
\* with a status other than 200 raises, whatever the client did before.
C18_GetStocksRaisesOnError ==
    [][(GetStocks /\ server_status # 200) => outcome'.kind = "raise"]_vars

\* the total a listing's response declares, the number of its datasets
\* when it declares none
DeclaredTotal(content, datasets) ==
    IF Truthy(content.totalSize) THEN int(content.totalSize).value
    ELSE Len(datasets)

\* C19: the total reported with a listing is the total declared by the
\* response that produced the datasets of the listing, and the number of
\* those datasets when that response declares no total.
C19_TotalOfShownListing ==
    shown.kind = "listing" =>
        shown.total_size =
            DeclaredTotal(ProcessesResponse(shown.stock_uuid, shown.query,
                                            shown.page * PageSize, PageSize),
                          shown.datasets)

\* C20: constructing a SodaClient with a username and a password gives a
\* client authenticating with that pair, with neither gives a client
\* without authentication, with exactly one raises ValueError and gives no
\* client; a client never authenticates with half a pair.
C20_ConstructAllOrNothing ==
    /\ [](client.exists =>
            \/ client.auth = NoAuth
            \/ /\ Len(client.auth) = 2
               /\ Truthy(client.auth[1]) /\ Truthy(client.auth[2]))
    /\ [][\A username \in Usernames, password \in Passwords :
            Construct(username, password) =>
                /\ (Truthy(username) /\ Truthy(password)) =>
                      /\ outcome'.kind = "return"
                      /\ client'.exists
                      /\ client'.auth = <<username, password>>
                /\ (~Truthy(username) /\ ~Truthy(password)) =>
                      /\ outcome'.kind = "return"
                      /\ client'.exists
                      /\ client'.auth = NoAuth
                /\ (Truthy(username) # Truthy(password)) =>
                      /\ outcome' = Raise("ValueError")
                      /\ ~client'.exists]_vars

\* a client constructed with both credentials
C20_Witness ==
    /\ called = "SodaClient"
    /\ outcome.kind = "return"
    /\ client.exists
    /\ client.auth = <<"user", "pass">>


\* C21: test_connection returns True exactly when the stock listing answers
\* with status 200, False for every other status and when the request
\* fails, and never raises.
C21_TestConnection ==
    [][TestConnection =>
          /\ outcome'.kind = "return"
          /\ outcome'.value = (server_status = 200)]_vars

\* a connection test whose request failed, answered with False
C21_Witness ==
    /\ called = "test_connection"
    /\ server_status = NoResponse
    /\ outcome = Return(FALSE)

\* C30: a search_datasets call that fails returns the empty list without
\* raising, and a call made while the server answers with status 200
\* returns the datasets of the server's response, whatever earlier calls
\* with the same arguments returned.
C30_FailuresNotRemembered ==
    [][\A stock_uuid \in ServerStockUuids, query \in Queries, page \in 0..MaxPage :
          ShowDatasets(stock_uuid, query, page) =>
              /\ outcome'.kind = "return"
              /\ server_status # 200 => outcome'.value = <<>>
              /\ server_status = 200 =>
                    outcome'.value =
                        search_datasets(200,
                            ProcessesResponse(stock_uuid, query,
                                              page * PageSize, PageSize)).value]_vars


\* the non-empty chunks of a body, in arrival order
NonEmptyChunks(chunks) == SelectSeq(chunks, LAMBDA chunk : chunk # <<>>)

\* a download whose request and stream both succeed
Delivered(response) ==
    response.status_code = 200 /\ response.received = Len(response.chunks)

\* C22: download_stock returns the received chunks concatenated in arrival
\* order, with or without a callback; a callback is called once per
\* non-empty chunk with the cumulative byte count, which never decreases
\* and on the last call equals the length of the returned content; a failed
\* request raises.
C22_DownloadStock ==
    called = "download_stock" =>
        /\ Delivered(xml_content) =>
              /\ outcome = Return(Concat(xml_content.chunks))
              /\ Len(progress) = IF xml_content.progress_callback
                                 THEN Len(NonEmptyChunks(xml_content.chunks))
                                 ELSE 0
              /\ \A j \in DOMAIN progress :
                    /\ progress[j].current =
                          Len(Concat(SubSeq(NonEmptyChunks(xml_content.chunks),
                                            1, j)))
                    /\ j > 1 => progress[j - 1].current <= progress[j].current
              /\ progress # <<>> =>
                    progress[Len(progress)].current = Len(outcome.value)
        /\ ~Delivered(xml_content) => outcome.kind = "raise"

\* two non-empty chunks with an empty one between them, with a callback
C22_Witness ==
    /\ called = "download_stock"
    /\ Delivered(xml_content)
    /\ xml_content.progress_callback
    /\ Len(NonEmptyChunks(xml_content.chunks)) = 2
    /\ Len(progress) = 2
    /\ progress[2].current = Len(outcome.value)


\* the three views of the session
NodeView == ~client.exists
StockView == client.exists /\ session.current_stock = NoStock
DatasetView == client.exists /\ session.current_stock # NoStock

\* the stock list the server serves at this moment, as a client without a
\* cache reads it
ServedNow == get_stocks(EmptyDict, 200, ServedStocks(server_stocks)).value

\* C23: after a successful refresh in the stock view, Session.stocks is the
\* list the server serves at that moment, also when the server's list has
\* changed since connect.
C23_RefreshRereads ==
    [][\A handler \in RefreshHandlers :
          (StockView /\ Refresh(handler) /\ outcome'.kind = "return")
              => session'.stocks = ServedNow]_vars


\* the selected stock's identifier
SelectedUuid == session.current_stock[1]["uuid"]

\* the page after the current one returns at least one dataset: from the
\* cache when that page was fetched before, from the server otherwise
FollowingPageReturnsDatasets ==
    LET key == <<SelectedUuid, session.current_query,
                 session.current_page + 1, PageSize>>
    IN IF key \in DOMAIN lru_cache.search_datasets
       THEN lru_cache.search_datasets[key] # <<>>
       ELSE /\ server_status = 200
            /\ ServerMatches(SelectedUuid, session.current_query)
                  > (session.current_page + 1) * PageSize

\* C24: next adds exactly 1 to current_page when the following page returns
\* a dataset and leaves it unchanged otherwise; prev subtracts exactly 1
\* above 0 and leaves 0 unchanged; current_page is never negative and never
\* past the last page that has datasets; a listing of page p starts at the
\* dataset at offset p * page_size.
C24_PagingInBounds ==
    /\ [](/\ session.current_page >= 0
          /\ (DatasetView /\ session.current_page > 0)
                => ServerMatches(SelectedUuid, session.current_query)
                      > session.current_page * PageSize
          /\ shown.kind = "listing"
                => shown.datasets[1]["uuid"]
                      = UuidDocText[shown.page * PageSize + 1])
    /\ [][\A handler \in DatasetHandlers :
             (DatasetView /\ NextPage(handler))
                => session'.current_page =
                      IF FollowingPageReturnsDatasets
                      THEN session.current_page + 1
                      ELSE session.current_page]_vars
    /\ [][\A handler \in DatasetHandlers :
             (DatasetView /\ PrevPage(handler))
                => session'.current_page =
                      IF session.current_page > 0
                      THEN session.current_page - 1 ELSE 0]_vars

\* on page 1, the last page with datasets, next found nothing and the
\* session stayed
C24_Witness ==
    /\ called = "next"
    /\ outcome.kind = "return" /\ outcome.value = <<>>
    /\ session.current_stock # NoStock
    /\ session.current_page = 1


\* C25: the listing numbers the i-th dataset of page p as
\* p * page_size + i + 1, and entering number N, in the main loop or with
\* view, opens the dataset shown under N on the current page, or reports an
\* invalid number when the page shows no dataset under N.
C25_OpensDisplayed ==
    /\ [](shown.kind = "listing"
             => shown.start_num = shown.page * PageSize + 1)
    /\ [][\A handler \in DatasetHandlers, number \in Numbers :
             (DatasetView /\ Open(handler, number))
                => LET key == <<SelectedUuid, session.current_query,
                                session.current_page, PageSize>>
                       datasets == lru_cache'.search_datasets[key]
                       i == number - session.current_page * PageSize
                   IN IF i \in 1..Len(datasets)
                      THEN \/ outcome'.kind = "raise"
                           \/ /\ outcome'.kind = "return"
                              /\ outcome'.value.uuid = datasets[i]["uuid"]
                      ELSE /\ outcome'.kind = "message"
                           /\ outcome'.exc = "Invalid dataset number"]_vars


\* C26: in every reachable state, a selected stock implies a connected
\* client and membership of the stock in Session.stocks; no client implies
\* an empty Session.stocks and no selected stock.
C26_NavigationInvariant ==
    /\ session.current_stock # NoStock
          => /\ client.exists
             /\ \E i \in DOMAIN session.stocks :
                   session.stocks[i] = session.current_stock[1]
    /\ ~client.exists
          => session.stocks = <<>> /\ session.current_stock = NoStock

\* a stock was selected and the session went back to the node view
C26_Witness ==
    /\ called = "back"
    /\ NodeView
    /\ calls >= 4

\* C27: connect_to_node returns True exactly when the connection test
\* succeeded and get_stocks returned a non-empty list, and then the client
\* is set and Session.stocks is that list; otherwise it returns False, the
\* client is None, and the selected stock, page and query are unchanged.
C27_ConnectAllOrNothing ==
    [][\A credentials \in PromptedCredentials, later \in ServerAnswers :
          Connect(credentials[1], credentials[2], later)
             => LET tested == server_status = 200
                    fetched == later = 200
                IN IF tested /\ fetched /\ ServedNow # <<>>
                   THEN /\ outcome'.value = TRUE
                        /\ client'.exists
                        /\ session'.stocks = ServedNow
                   ELSE /\ outcome'.value = FALSE
                        /\ client' = NoClient
                        /\ session'.current_stock = session.current_stock
                        /\ session'.current_page = session.current_page
                        /\ session'.current_query = session.current_query]_vars

\* the connection test succeeded, the server served no stock, and the
\* connect was refused
C27_Witness ==
    /\ called = "connect"
    /\ outcome.value = FALSE
    /\ server_status = 200
    /\ server_stocks = 0
    /\ ~client.exists

\* C28: select, search, list and back out of a stock leave current_page at
\* 0; search sets current_query to its argument, the others to the empty
\* string; so current_page is 0 and current_query is empty whenever no
\* stock is selected.
C28_ListingChangeResetsPaging ==
    /\ [](session.current_stock = NoStock
             => session.current_page = 0 /\ session.current_query = "")
    /\ [][\A handler \in SelectHandlers, number \in Numbers :
             (Select(handler, number) /\ session'.current_stock # NoStock)
                => session'.current_page = 0
                      /\ session'.current_query = ""]_vars
    /\ [][\A handler \in DatasetHandlers, args \in Queries :
             Search(handler, args)
                => session'.current_page = 0
                      /\ session'.current_query = args]_vars
    /\ [][\A handler \in DatasetHandlers :
             List(handler)
                => session'.current_page = 0
                      /\ session'.current_query = ""]_vars
    /\ [][\A handler \in BackHandlers :
             (Back(handler) /\ session.current_stock # NoStock)
                => session'.current_page = 0
                      /\ session'.current_query = ""]_vars

\* C29: back from the dataset view clears the selected stock and keeps the
\* client and the stocks; from the stock view it clears the client and the
\* stocks; from the node view it changes no session state.
C29_BackOneLevel ==
    [][\A handler \in BackHandlers :
          Back(handler)
             => IF DatasetView
                THEN /\ session'.current_stock = NoStock
                     /\ client' = client
                     /\ session'.stocks = session.stocks
                ELSE IF StockView
                THEN /\ client' = NoClient
                     /\ session' = [session EXCEPT !.stocks = <<>>]
                ELSE /\ client' = client
                     /\ session' = session]_vars

\* back left the dataset view for the stock view, with the stocks kept
C29_Witness ==
    /\ called = "back"
    /\ StockView
    /\ session.stocks # <<>>

====
